---- MODULE Spec2Model ----
(***************************************************************************)
(* Model of the location search service of src/main.go: searchHandler,     *)
(* searchProperties, findBestCityMatch, the response cache searchCache and *)
(* its sync.RWMutex cacheMutex, run by concurrent requests.                *)
(*                                                                         *)
(* Strings are sequences of one-character strings, so that TrimSpace,      *)
(* ToLower and the Levenshtein distance are computed and not assumed.      *)
(* Coordinates are whole kilometres on a plane and calculateDistance is    *)
(* the straight-line distance rounded up to a whole kilometre: the catalog *)
(* below is a reduced one that holds a property at exactly the radius, one *)
(* just outside it, two at equal distance, and a city with no property in  *)
(* range.  The reference-location keys are those of the source.            *)
(***************************************************************************)
EXTENDS Integers, Sequences, FiniteSets, TLC

\* ------------------------------------------------------------------ bounds
\* Total number of requests the clients send in one behaviour.
MaxCalls == 3

\* The concurrent requests (goroutines of the HTTP server).
Procs == {1, 2}

\* ------------------------------------------------------------ program data
RadiusKm == 50
InitialMinDistance == 2
StatusOK == 200
StatusBadRequest == 400

udaipur == <<"u", "d", "a", "i", "p", "u", "r">>
jaipur == <<"j", "a", "i", "p", "u", "r">>
jaisalmer == <<"j", "a", "i", "s", "a", "l", "m", "e", "r">>
delih == <<"d", "e", "l", "i", "h">>
udiapur == <<"u", "d", "i", "a", "p", "u", "r">>

\* var cityCenters: reference key -> coordinates.  udaipur and udiapur share
\* their coordinates, as in the source.
cityCenters ==
    (udaipur :> [Lat |-> 0, Lon |-> 0])
    @@ (jaipur :> [Lat |-> 200, Lon |-> 0])
    @@ (jaisalmer :> [Lat |-> 0, Lon |-> 300])
    @@ (delih :> [Lat |-> 400, Lon |-> 0])
    @@ (udiapur :> [Lat |-> 0, Lon |-> 0])

Cities == DOMAIN cityCenters

\* var properties: the catalog, in catalog order.
properties ==
    << [Name |-> "Udaipur Far", Latitude |-> 30, Longitude |-> 40],
       [Name |-> "Udaipur Outside", Latitude |-> 0, Longitude |-> 51],
       [Name |-> "Udaipur East", Latitude |-> 3, Longitude |-> 4],
       [Name |-> "Udaipur North", Latitude |-> 4, Longitude |-> 3],
       [Name |-> "Jaipur", Latitude |-> 210, Longitude |-> 0],
       [Name |-> "Delhi", Latitude |-> 400, Longitude |-> 20] >>

\* ---------------------------------------------------------------- strings
UpperLetters ==
    << "A", "B", "C", "D", "E", "F", "G", "H", "I", "J", "K", "L", "M",
       "N", "O", "P", "Q", "R", "S", "T", "U", "V", "W", "X", "Y", "Z" >>
LowerLetters ==
    << "a", "b", "c", "d", "e", "f", "g", "h", "i", "j", "k", "l", "m",
       "n", "o", "p", "q", "r", "s", "t", "u", "v", "w", "x", "y", "z" >>
WhiteSpace == {" ", "\t", "\n"}

ToLowerChar(c) ==
    IF \E i \in 1..Len(UpperLetters) : UpperLetters[i] = c
    THEN LowerLetters[CHOOSE i \in 1..Len(UpperLetters) : UpperLetters[i] = c]
    ELSE c

\* strings.ToLower
ToLower(s) == [i \in 1..Len(s) |-> ToLowerChar(s[i])]

\* strings.TrimSpace: drop the leading and the trailing white space.
TrimSpace(s) ==
    LET inner == {i \in 1..Len(s) : s[i] \notin WhiteSpace}
    IN  IF inner = {} THEN <<>>
        ELSE LET lo == CHOOSE i \in inner : \A j \in inner : i <= j
                 hi == CHOOSE i \in inner : \A j \in inner : j <= i
             IN  SubSeq(s, lo, hi)

Min2(a, b) == IF a <= b THEN a ELSE b

\* One row of the Levenshtein table: the row of the prefix of a that ends
\* with the character c, from the row prev of the prefix before it.
RECURSIVE LevRow(_, _, _, _)
LevRow(prev, c, b, acc) ==
    LET j == Len(acc)
    IN  IF j = Len(b) + 1 THEN acc
        ELSE LevRow(prev, c, b,
                 Append(acc,
                     Min2(Min2(prev[j + 1] + 1, acc[j] + 1),
                          prev[j] + (IF b[j] = c THEN 0 ELSE 1))))

RECURSIVE LevRows(_, _, _, _)
LevRows(a, b, i, prev) ==
    IF i > Len(a) THEN prev[Len(b) + 1]
    ELSE LevRows(a, b, i + 1, LevRow(prev, a[i], b, <<prev[1] + 1>>))

\* The Levenshtein distance: insertions, deletions and substitutions cost 1
\* each.
Levenshtein(a, b) ==
    IF Len(a) = 0 THEN Len(b)
    ELSE IF Len(b) = 0 THEN Len(a)
    ELSE IF a = b THEN 0
    ELSE LevRows(a, b, 1, [j \in 1..(Len(b) + 1) |-> j - 1])

\* --------------------------------------------------------------- requests
\* The non-empty values of the parameter q the clients send.
Queries ==
    { <<" ", "U", "d", "a", "i", "p", "u", "r", " ">>,
      udiapur,
      jaipur,
      jaisalmer,
      <<"u", "a", "i", "p", "u", "r">>,
      <<"j", "a", "i", "p", "u">>,
      <<"D", "e", "l", "h", "i">> }

\* The key searchProperties probes the cache with.
ProbeKey(q) == ToLower(TrimSpace(q))

\* levenshtein.ComputeDistance.  The distances between the queries and the
\* reference keys are computed once.
KnownDistances ==
    [a \in {ProbeKey(q) : q \in Queries} |-> [b \in Cities |-> Levenshtein(a, b)]]

ComputeDistance(a, b) ==
    IF a \in DOMAIN KnownDistances /\ b \in Cities
    THEN KnownDistances[a][b]
    ELSE Levenshtein(a, b)

\* ------------------------------------------------------------- distances
Abs(n) == IF n < 0 THEN -n ELSE n

\* The least r with r * r >= n.
CeilSqrt(n, min, max) ==
    CHOOSE r \in min..max : r * r >= n /\ (r = 0 \/ (r - 1) * (r - 1) < n)

\* calculateDistance: the distance in km between two coordinates.
calculateDistance(lat1, lon1, lat2, lon2) ==
    LET dLat == Abs(lat2 - lat1)
        dLon == Abs(lon2 - lon1)
    IN  CeilSqrt(dLat * dLat + dLon * dLon,
                 IF dLat > dLon THEN dLat ELSE dLon, dLat + dLon)

\* ------------------------------------------------------------ fuzzy match
\* The loop of findBestCityMatch over the cities in the order the map
\* iteration yields them; query is already lowercased.
RECURSIVE MatchLoop(_, _, _, _, _)
MatchLoop(query, order, i, minDistance, bestMatch) ==
    IF i > Len(order) THEN bestMatch
    ELSE LET distance == ComputeDistance(query, order[i])
         IN  IF distance < minDistance
             THEN MatchLoop(query, order, i + 1, distance, order[i])
             ELSE MatchLoop(query, order, i + 1, minDistance, bestMatch)

\* A faulty findBestCityMatch: it accepts a key at edit distance 2.
findBestCityMatchWide(query, order) ==
    MatchLoop(ToLower(query), order, 1, InitialMinDistance + 1, <<>>)

\* findBestCityMatch under one iteration order of cityCenters; <<>> is "".
findBestCityMatch(query, order) ==
    MatchLoop(ToLower(query), order, 1, InitialMinDistance, <<>>)

\* The orders in which a range over the map cityCenters can yield its keys.
IterationOrders ==
    {o \in [1..Cardinality(Cities) -> Cities] :
        \A i, j \in DOMAIN o : i # j => o[i] # o[j]}

\* What findBestCityMatch can return for each trimmed query, over all the
\* iteration orders; computed once.
FuzzyOutcomes ==
    [query \in {TrimSpace(q) : q \in Queries} |->
        {findBestCityMatch(query, order) : order \in IterationOrders}]

\* ----------------------------------------------------------------- search
\* A faulty catalog scan: it drops the property at exactly the radius.
RECURSIVE ScanFromStrict(_, _, _, _)
ScanFromStrict(i, targetLat, targetLon, results) ==
    IF i > Len(properties) THEN results
    ELSE LET prop == properties[i]
             distance == calculateDistance(targetLat, targetLon,
                                           prop.Latitude, prop.Longitude)
         IN  IF distance < RadiusKm
             THEN ScanFromStrict(i + 1, targetLat, targetLon,
                      Append(results,
                          [Name |-> prop.Name, Distance |-> distance,
                           Latitude |-> prop.Latitude,
                           Longitude |-> prop.Longitude]))
             ELSE ScanFromStrict(i + 1, targetLat, targetLon, results)

\* The catalog scan of searchProperties: the properties within the radius,
\* in catalog order.
RECURSIVE ScanFrom(_, _, _, _)
ScanFrom(i, targetLat, targetLon, results) ==
    IF i > Len(properties) THEN results
    ELSE LET prop == properties[i]
             distance == calculateDistance(targetLat, targetLon,
                                           prop.Latitude, prop.Longitude)
         IN  IF distance <= RadiusKm
             THEN ScanFrom(i + 1, targetLat, targetLon,
                      Append(results,
                          [Name |-> prop.Name, Distance |-> distance,
                           Latitude |-> prop.Latitude,
                           Longitude |-> prop.Longitude]))
             ELSE ScanFrom(i + 1, targetLat, targetLon, results)

\* The comparison handed to sort.Slice.
Less(a, b) == a.Distance < b.Distance

\* A faulty sort: the results stay in catalog order.
SortSliceSkipped(results, sorted, stable) == sorted \o results

\* sort.Slice orders by Less and promises nothing about elements that
\* compare equal: a build keeps them in their order (stable) or not.
RECURSIVE SortSlice(_, _, _)
SortSlice(results, sorted, stable) ==
    IF results = <<>> THEN sorted
    ELSE LET x == Head(results)
             k == Cardinality({i \in 1..Len(sorted) :
                      \/ Less(sorted[i], x)
                      \/ stable /\ ~Less(x, sorted[i])})
         IN  SortSlice(Tail(results),
                 SubSeq(sorted, 1, k) \o <<x>> \o SubSeq(sorted, k + 1, Len(sorted)),
                 stable)

\* fmt.Sprintf("Found %d properties within 50km", n)
FoundMessage(n) == "Found " \o ToString(n) \o " properties within 50km"

NotRecognized == [Properties |-> <<>>, Message |-> "Location not recognized"]

\* A faulty response: the empty result has no message of its own.
BuildResponseNoEmptyCase(results) ==
    [Properties |-> results, Message |-> FoundMessage(Len(results))]

\* The response searchProperties builds from the sorted results.
BuildResponse(results) ==
    IF Len(results) = 0
    THEN [Properties |-> <<>>, Message |-> "No properties found within 50km"]
    ELSE [Properties |-> results, Message |-> FoundMessage(Len(results))]

\* Lines 138-166 of searchProperties for a resolved target.
SearchFrom(targetLat, targetLon, stable) ==
    BuildResponse(SortSlice(ScanFrom(1, targetLat, targetLon, <<>>), <<>>, stable))

\* The searches from the reference locations, computed once.
KnownSearches ==
    [target \in {cityCenters[c] : c \in Cities} |->
        [stable \in BOOLEAN |-> SearchFrom(target.Lat, target.Lon, stable)]]

SearchTarget(targetLat, targetLon, stable) ==
    IF [Lat |-> targetLat, Lon |-> targetLon] \in DOMAIN KnownSearches
    THEN KnownSearches[[Lat |-> targetLat, Lon |-> targetLon]][stable]
    ELSE SearchFrom(targetLat, targetLon, stable)

NoResponse == [Properties |-> <<>>, Message |-> ""]

\* The locals of a request that has not entered searchProperties.
NoLocals ==
    [q |-> <<>>, query |-> <<>>, cacheKey |-> <<>>, found |-> FALSE,
     bestMatch |-> <<>>, targetLat |-> 0, targetLon |-> 0,
     response |-> NoResponse]

NoTrace == [hit |-> FALSE, fuzzy |-> FALSE, late |-> FALSE, again |-> FALSE]

\* A faulty exact lookup: the query is not lowercased.
IsExactRaw(query) == query \in Cities

\* Line 114: the lowercased query is a key of cityCenters.
IsExact(query) == ToLower(query) \in Cities

\* A faulty exact branch: found is not set.
ExactMatchNotFound(l) ==
    [l EXCEPT !.targetLat = cityCenters[ToLower(l.query)].Lat,
              !.targetLon = cityCenters[ToLower(l.query)].Lon]

\* Lines 115-116: the target is the key's own coordinates.
ExactMatch(l) ==
    [l EXCEPT !.targetLat = cityCenters[ToLower(l.query)].Lat,
              !.targetLon = cityCenters[ToLower(l.query)].Lon,
              !.found = TRUE]

\* A faulty fuzzy branch: latitude and longitude of the match are swapped.
FuzzyMatchSwapped(l, bestMatch) ==
    IF bestMatch # <<>>
    THEN [l EXCEPT !.bestMatch = bestMatch,
                   !.targetLat = cityCenters[bestMatch].Lon,
                   !.targetLon = cityCenters[bestMatch].Lat,
                   !.found = TRUE,
                   !.cacheKey = bestMatch]
    ELSE l

\* A faulty fuzzy branch: the cache key stays the raw normalized query.
FuzzyMatchKeepKey(l, bestMatch) ==
    IF bestMatch # <<>>
    THEN [l EXCEPT !.bestMatch = bestMatch,
                   !.targetLat = cityCenters[bestMatch].Lat,
                   !.targetLon = cityCenters[bestMatch].Lon,
                   !.found = TRUE]
    ELSE l

\* Lines 118-124: with a best match, its coordinates are the target and it
\* becomes the cache key.
FuzzyMatch(l, bestMatch) ==
    IF bestMatch # <<>>
    THEN [l EXCEPT !.bestMatch = bestMatch,
                   !.targetLat = cityCenters[bestMatch].Lat,
                   !.targetLon = cityCenters[bestMatch].Lon,
                   !.found = TRUE,
                   !.cacheKey = bestMatch]
    ELSE l

\* Lines 127-131 and 138-166: the response of a cache miss.
Respond(l, stable) ==
    [l EXCEPT !.response =
        IF ~l.found THEN NotRecognized
        ELSE SearchTarget(l.targetLat, l.targetLon, stable)]

\* A faulty store: the cache keeps the last entry only.
CachePutEvicting(cache, cacheKey, response) ==
    [k \in {cacheKey} |-> response]

\* A faulty store: an unresolved response is not cached.
CachePutResolvedOnly(cache, cacheKey, response) ==
    IF response = NotRecognized THEN cache
    ELSE [k \in DOMAIN cache \cup {cacheKey} |->
             IF k = cacheKey THEN response ELSE cache[k]]

\* searchCache[cacheKey] = response (lines 133 and 169).
CachePut(cache, cacheKey, response) ==
    [k \in DOMAIN cache \cup {cacheKey} |->
        IF k = cacheKey THEN response ELSE cache[k]]

VARIABLES
    searchCache,    \* var searchCache: cache key -> SearchResponse
    readers,        \* the requests that hold cacheMutex for reading
    writer,         \* the request that holds cacheMutex for writing, if any
    pending,        \* the requests blocked in cacheMutex.Lock()
    pc,             \* where each request stands
    locals,         \* the locals of searchHandler and searchProperties
    status,         \* the HTTP status of the last answer of each request slot
    trace,          \* per call: cache hit, fuzzy matcher invoked, started late, repeats
    unresolvedDone, \* probe keys of the completed calls that resolved nothing
    fuzzyDone,      \* probe keys of the completed calls that resolved by fuzzy match
    calls,          \* requests received so far
    sortStable      \* whether this build's sort.Slice keeps equal elements in order

vars ==
    << searchCache, readers, writer, pending, pc, locals, status, trace,
       unresolvedDone, fuzzyDone, calls, sortStable >>

Init ==
    /\ searchCache = << >>
    /\ readers = {}
    /\ writer = {}
    /\ pending = {}
    /\ pc = [p \in Procs |-> "idle"]
    /\ locals = [p \in Procs |-> NoLocals]
    /\ status = [p \in Procs |-> 0]
    /\ trace = [p \in Procs |-> NoTrace]
    /\ unresolvedDone = {}
    /\ fuzzyDone = {}
    /\ calls = 0
    /\ sortStable \in BOOLEAN

\* A faulty handler: the empty query is answered 400 but also cached as
\* not recognized.
BadRequestCached(p) ==
    /\ pc[p] \in {"idle", "done"}
    /\ calls < MaxCalls
    /\ calls' = calls + 1
    /\ locals' = [locals EXCEPT ![p] = NoLocals]
    /\ trace' = [trace EXCEPT ![p] = NoTrace]
    /\ status' = [status EXCEPT ![p] = StatusBadRequest]
    /\ pc' = [pc EXCEPT ![p] = "done"]
    /\ searchCache' = CachePut(searchCache, <<>>, NotRecognized)
    /\ UNCHANGED <<readers, writer, pending, unresolvedDone, fuzzyDone, sortStable>>

\* searchHandler without q, or with an empty one: 400, searchProperties is
\* not called.
BadRequest(p) ==
    /\ pc[p] \in {"idle", "done"}
    /\ calls < MaxCalls
    /\ calls' = calls + 1
    /\ locals' = [locals EXCEPT ![p] = NoLocals]
    /\ trace' = [trace EXCEPT ![p] = NoTrace]
    /\ status' = [status EXCEPT ![p] = StatusBadRequest]
    /\ pc' = [pc EXCEPT ![p] = "done"]
    /\ UNCHANGED <<searchCache, readers, writer, pending, unresolvedDone, fuzzyDone, sortStable>>

\* searchHandler with a query q, up to the probe key of searchProperties
\* (lines 177-183 and 100-102).
Request(p, q) ==
    /\ pc[p] \in {"idle", "done"}
    /\ calls < MaxCalls
    /\ calls' = calls + 1
    /\ locals' = [locals EXCEPT ![p] =
           [NoLocals EXCEPT !.q = q, !.query = TrimSpace(q),
                            !.cacheKey = ToLower(TrimSpace(q))]]
    /\ trace' = [trace EXCEPT ![p] =
           [NoTrace EXCEPT !.late = ProbeKey(q) \in unresolvedDone,
                           !.again = ProbeKey(q) \in fuzzyDone]]
    /\ status' = [status EXCEPT ![p] = 0]
    /\ pc' = [pc EXCEPT ![p] = "rlock"]
    /\ UNCHANGED <<searchCache, readers, writer, pending, unresolvedDone, fuzzyDone, sortStable>>

\* cacheMutex.RLock(): waits while a writer holds the lock or waits for it.
RLock(p) ==
    /\ pc[p] = "rlock"
    /\ writer = {}
    /\ pending = {}
    /\ readers' = readers \cup {p}
    /\ pc' = [pc EXCEPT ![p] = "probe"]
    /\ UNCHANGED <<searchCache, writer, pending, locals, status, trace,
                   unresolvedDone, fuzzyDone, calls, sortStable>>

\* A faulty hit path: it returns the entry without RUnlock.
CacheHitNoUnlock(p) ==
    /\ pc[p] = "probe"
    /\ locals[p].cacheKey \in DOMAIN searchCache
    /\ locals' = [locals EXCEPT ![p].response = searchCache[locals[p].cacheKey]]
    /\ trace' = [trace EXCEPT ![p].hit = TRUE]
    /\ status' = [status EXCEPT ![p] = StatusOK]
    /\ unresolvedDone' =
           IF searchCache[locals[p].cacheKey] = NotRecognized
           THEN unresolvedDone \cup {locals[p].cacheKey}
           ELSE unresolvedDone
    /\ pc' = [pc EXCEPT ![p] = "done"]
    /\ UNCHANGED <<searchCache, readers, writer, pending, fuzzyDone, calls, sortStable>>

\* Lines 104-107: the probe finds an entry; RUnlock and return it.
CacheHit(p) ==
    /\ pc[p] = "probe"
    /\ locals[p].cacheKey \in DOMAIN searchCache
    /\ readers' = readers \ {p}
    /\ locals' = [locals EXCEPT ![p].response = searchCache[locals[p].cacheKey]]
    /\ trace' = [trace EXCEPT ![p].hit = TRUE]
    /\ status' = [status EXCEPT ![p] = StatusOK]
    /\ unresolvedDone' =
           IF searchCache[locals[p].cacheKey] = NotRecognized
           THEN unresolvedDone \cup {locals[p].cacheKey}
           ELSE unresolvedDone
    /\ pc' = [pc EXCEPT ![p] = "done"]
    /\ UNCHANGED <<searchCache, writer, pending, fuzzyDone, calls, sortStable>>

\* Lines 104 and 109: the probe finds nothing; RUnlock.
CacheMiss(p) ==
    /\ pc[p] = "probe"
    /\ locals[p].cacheKey \notin DOMAIN searchCache
    /\ readers' = readers \ {p}
    /\ pc' = [pc EXCEPT ![p] = "resolve"]
    /\ UNCHANGED <<searchCache, writer, pending, locals, status, trace,
                   unresolvedDone, fuzzyDone, calls, sortStable>>

\* Lines 114-116 and 138-166: the lowercased query is a key of cityCenters.
ResolveExact(p) ==
    /\ pc[p] = "resolve"
    /\ IsExact(locals[p].query)
    /\ locals' = [locals EXCEPT ![p] = Respond(ExactMatch(@), sortStable)]
    /\ pc' = [pc EXCEPT ![p] = "lock"]
    /\ UNCHANGED <<searchCache, readers, writer, pending, status, trace,
                   unresolvedDone, fuzzyDone, calls, sortStable>>

\* Lines 117-166: no exact key; findBestCityMatch ranges over the map in
\* some order, then either the unresolved response or the search.
ResolveFuzzy(p) ==
    /\ pc[p] = "resolve"
    /\ ~IsExact(locals[p].query)
    /\ \E bestMatch \in FuzzyOutcomes[locals[p].query] :
         locals' = [locals EXCEPT ![p] = Respond(FuzzyMatch(@, bestMatch), sortStable)]
    /\ trace' = [trace EXCEPT ![p].fuzzy = TRUE]
    /\ pc' = [pc EXCEPT ![p] = "lock"]
    /\ UNCHANGED <<searchCache, readers, writer, pending, status,
                   unresolvedDone, fuzzyDone, calls, sortStable>>

\* cacheMutex.Lock() is called: from now on no new reader gets in.
LockCall(p) ==
    /\ pc[p] = "lock"
    /\ pending' = pending \cup {p}
    /\ pc' = [pc EXCEPT ![p] = "lockwait"]
    /\ UNCHANGED <<searchCache, readers, writer, locals, status, trace,
                   unresolvedDone, fuzzyDone, calls, sortStable>>

\* A faulty write lock: it is taken like a read lock, whatever the readers.
LockAcquireShared(p) ==
    /\ pc[p] = "lockwait"
    /\ writer = {}
    /\ writer' = {p}
    /\ pending' = pending \ {p}
    /\ pc' = [pc EXCEPT ![p] = "store"]
    /\ UNCHANGED <<searchCache, readers, locals, status, trace,
                   unresolvedDone, fuzzyDone, calls, sortStable>>

\* cacheMutex.Lock() returns: no reader and no writer holds the lock.
LockAcquire(p) ==
    /\ pc[p] = "lockwait"
    /\ writer = {}
    /\ readers = {}
    /\ writer' = {p}
    /\ pending' = pending \ {p}
    /\ pc' = [pc EXCEPT ![p] = "store"]
    /\ UNCHANGED <<searchCache, readers, locals, status, trace,
                   unresolvedDone, fuzzyDone, calls, sortStable>>

\* searchCache[cacheKey] = response; cacheMutex.Unlock(); return response
\* (lines 133-135 and 169-173).
Store(p) ==
    /\ pc[p] = "store"
    /\ writer = {p}
    /\ searchCache' = CachePut(searchCache, locals[p].cacheKey, locals[p].response)
    /\ writer' = {}
    /\ status' = [status EXCEPT ![p] = StatusOK]
    /\ unresolvedDone' =
           IF locals[p].found THEN unresolvedDone
           ELSE unresolvedDone \cup {ProbeKey(locals[p].q)}
    /\ fuzzyDone' =
           IF locals[p].found /\ trace[p].fuzzy
           THEN fuzzyDone \cup {ProbeKey(locals[p].q)}
           ELSE fuzzyDone
    /\ pc' = [pc EXCEPT ![p] = "done"]
    /\ UNCHANGED <<readers, pending, locals, trace, calls, sortStable>>

Next ==
    \E p \in Procs :
        \/ BadRequest(p)
        \/ \E q \in Queries : Request(p, q)
        \/ RLock(p)
        \/ CacheHit(p)
        \/ CacheMiss(p)
        \/ ResolveExact(p)
        \/ ResolveFuzzy(p)
        \/ LockCall(p)
        \/ LockAcquire(p)
        \/ Store(p)

Spec == Init /\ [][Next]_vars

\* A step of searchProperties by the request p.
Progress(p) ==
    \/ RLock(p)
    \/ CacheHit(p)
    \/ CacheMiss(p)
    \/ ResolveExact(p)
    \/ ResolveFuzzy(p)
    \/ LockCall(p)
    \/ LockAcquire(p)
    \/ Store(p)

\* The scheduler runs every goroutine that can take a step, and
\* sync.RWMutex hands the lock to a waiting goroutine once it is free.
\* Progress does not depend on the spelling of the queries but on the paths
\* they take; FairSpec sends one query for each path: an exact key, a
\* misspelling and an unresolved query.
FairQueries ==
    { <<" ", "U", "d", "a", "i", "p", "u", "r", " ">>,
      <<"j", "a", "i", "p", "u">>,
      <<"D", "e", "l", "h", "i">> }

FairNext ==
    \E p \in Procs :
        \/ BadRequest(p)
        \/ \E q \in FairQueries : Request(p, q)
        \/ Progress(p)

FairSpec == Init /\ [][FairNext]_vars /\ \A p \in Procs : WF_vars(Progress(p))

\* ------------------------------------------------------------- properties
\* The normalized (trimmed, lowercased) form of a raw query.
Normalized(q) == ToLower(TrimSpace(q))

\* The reference keys within edit distance 1 of a normalized query.
NearKeys ==
    [k \in {Normalized(q) : q \in Queries} |->
        {c \in Cities : Levenshtein(k, c) <= 1}]

\* The least edit distance from a normalized query to a reference key.
LeastDistance ==
    [k \in {Normalized(q) : q \in Queries} |->
        CHOOSE d \in 0..Len(k) + 9 :
            /\ \E c \in Cities : Levenshtein(k, c) = d
            /\ \A c \in Cities : Levenshtein(k, c) >= d]

\* The request p has received its answer from searchProperties.
Returned(p) == pc[p] = "done" /\ status[p] = StatusOK

\* The request p is past the resolution of a cache miss.
Resolving(p) == pc[p] \in {"lock", "lockwait", "store"} \/ (Returned(p) /\ ~trace[p].hit)

\* C1: repeated calls of handleQuery with the same query return identical
\* results: two answered requests for the same q hold the same response.
C1_Determinism ==
    \A p1, p2 \in Procs :
        (Returned(p1) /\ Returned(p2) /\ locals[p1].q = locals[p2].q)
            => locals[p1].response = locals[p2].response

\* C2: a cache write uses the matched reference key when the query resolves
\* (exactly or fuzzily) and the normalized raw query when it does not; so
\* every cache key is a reference key or a normalized query that no
\* reference key matches within edit distance 1.
C2_CacheKeyPostResolution ==
    /\ \A p \in Procs :
           pc[p] = "store" =>
               LET k == Normalized(locals[p].q)
               IN  IF NearKeys[k] # {}
                   THEN locals[p].cacheKey \in NearKeys[k]
                   ELSE locals[p].cacheKey = k
    /\ \A k \in DOMAIN searchCache :
           k \in Cities \/ (k \in DOMAIN NearKeys /\ NearKeys[k] = {})

\* A fuzzily resolved misspelling has been stored under its reference key,
\* and an unresolved query under its own normalized form.
C2_Witness ==
    /\ \E p \in Procs :
           /\ Returned(p) /\ trace[p].fuzzy /\ locals[p].found
           /\ locals[p].cacheKey \in DOMAIN searchCache
           /\ locals[p].cacheKey # Normalized(locals[p].q)
    /\ \E k \in DOMAIN searchCache : k \notin Cities

\* C3: findBestCityMatch returns a reference key at the least edit distance
\* from the lowercased query, and only when that distance is 0 or 1; when
\* every key is at distance 2 or more it returns none and the query is
\* unresolved.
C3_BestMatchThreshold ==
    \A p \in Procs :
        (Resolving(p) /\ trace[p].fuzzy) =>
            LET k == Normalized(locals[p].q)
                best == locals[p].bestMatch
            IN  IF LeastDistance[k] <= 1
                THEN /\ best \in Cities
                     /\ Levenshtein(k, best) = LeastDistance[k]
                     /\ locals[p].found
                ELSE /\ best = <<>>
                     /\ ~locals[p].found
                     /\ locals[p].response = NotRecognized

\* One request found no key for a query at distance exactly 2 (an adjacent
\* transposition), another got a key at distance 1.
C3_Witness ==
    \E p1, p2 \in Procs :
        /\ Returned(p1) /\ trace[p1].fuzzy /\ locals[p1].bestMatch = <<>>
        /\ LeastDistance[Normalized(locals[p1].q)] = 2
        /\ Returned(p2) /\ trace[p2].fuzzy /\ locals[p2].bestMatch \in Cities
        /\ LeastDistance[Normalized(locals[p2].q)] = 1

\* C4: a query whose normalized form is a reference key takes the exact
\* branch: the fuzzy matcher is not invoked, the target is that key's
\* coordinates and the cache key is that key.
C4_ExactBranch ==
    \A p \in Procs :
        (pc[p] \in {"lock", "lockwait", "store", "done"}
         /\ status[p] # StatusBadRequest
         /\ Normalized(locals[p].q) \in Cities) =>
            LET k == Normalized(locals[p].q)
            IN  /\ ~trace[p].fuzzy
                /\ locals[p].cacheKey = k
                /\ ~trace[p].hit =>
                       /\ locals[p].found
                       /\ locals[p].targetLat = cityCenters[k].Lat
                       /\ locals[p].targetLon = cityCenters[k].Lon

\* The pre-seeded key udiapur was resolved as itself on a cache miss, and a
\* padded, capitalised spelling of udaipur as udaipur.
C4_Witness ==
    \E p1, p2 \in Procs :
        /\ Returned(p1) /\ ~trace[p1].hit /\ locals[p1].q = udiapur
        /\ locals[p1].cacheKey = udiapur
        /\ Returned(p2) /\ ~trace[p2].hit /\ locals[p2].q # udaipur
        /\ locals[p2].cacheKey = udaipur

\* The answer of p is that of a query that resolved to a reference location.
Resolved(p) ==
    /\ Returned(p)
    /\ \/ trace[p].hit /\ locals[p].cacheKey \in Cities
       \/ ~trace[p].hit /\ locals[p].found

\* The coordinates the answer of a resolved query is about.
TargetOf(p) ==
    IF trace[p].hit THEN cityCenters[locals[p].cacheKey]
    ELSE [Lat |-> locals[p].targetLat, Lon |-> locals[p].targetLon]

\* The place of a result in the catalog.
CatalogIndex(r) ==
    CHOOSE i \in 1..Len(properties) :
        /\ properties[i].Name = r.Name
        /\ properties[i].Latitude = r.Latitude
        /\ properties[i].Longitude = r.Longitude

\* The catalog entries within the radius of a target.
InRadius(target) ==
    {i \in 1..Len(properties) :
        calculateDistance(target.Lat, target.Lon,
                          properties[i].Latitude, properties[i].Longitude) <= 50}

\* C5: the response to a resolved query, computed or served from the cache,
\* holds exactly the catalog properties at distance <= 50 from the resolved
\* target, each once and with that distance.
C5_RadiusFilter ==
    \A p \in Procs :
        Resolved(p) =>
            LET res == locals[p].response.Properties
                target == TargetOf(p)
            IN  /\ \A i \in 1..Len(res) :
                       /\ \E c \in 1..Len(properties) :
                              /\ properties[c].Name = res[i].Name
                              /\ properties[c].Latitude = res[i].Latitude
                              /\ properties[c].Longitude = res[i].Longitude
                       /\ res[i].Distance <= 50
                       /\ res[i].Distance =
                              calculateDistance(target.Lat, target.Lon,
                                                res[i].Latitude, res[i].Longitude)
                /\ {CatalogIndex(res[i]) : i \in 1..Len(res)} = InRadius(target)
                /\ Len(res) = Cardinality(InRadius(target))

\* A computed answer and a cached one both hold the property at exactly 50,
\* while the catalog has one farther than 50 from that target.
C5_Witness ==
    \E p1, p2 \in Procs :
        /\ Resolved(p1) /\ ~trace[p1].hit
        /\ Resolved(p2) /\ trace[p2].hit
        /\ \A p \in {p1, p2} :
               /\ \E i \in 1..Len(locals[p].response.Properties) :
                      locals[p].response.Properties[i].Distance = 50
               /\ InRadius(TargetOf(p)) # 1..Len(properties)

Ascending(res) ==
    \A i, j \in 1..Len(res) : i < j => res[i].Distance <= res[j].Distance

\* C6: in every SearchResult returned, computed or cached, the distances
\* are in ascending order.
C6_Ordering ==
    /\ \A p \in Procs : Returned(p) => Ascending(locals[p].response.Properties)
    /\ \A k \in DOMAIN searchCache : Ascending(searchCache[k].Properties)

\* A computed answer and a cached one hold results whose catalog order is
\* not their distance order.
C6_Witness ==
    \E p1, p2 \in Procs :
        /\ Returned(p1) /\ ~trace[p1].hit
        /\ Returned(p2) /\ trace[p2].hit
        /\ \A p \in {p1, p2} :
               LET res == locals[p].response.Properties
               IN  \E i, j \in 1..Len(res) :
                       /\ i < j
                       /\ res[i].Distance < res[j].Distance
                       /\ CatalogIndex(res[i]) > CatalogIndex(res[j])

MessageFor(res) ==
    IF Len(res) = 0 THEN "No properties found within 50km"
    ELSE "Found " \o ToString(Len(res)) \o " properties within 50km"

\* C8: the message of every response and of every cache entry agrees with
\* its properties: unresolved, none and "Location not recognized"; resolved
\* with nothing in the radius, none and "No properties found within 50km";
\* otherwise "Found N properties within 50km" with N their number.
C8_MessageConsistent ==
    /\ \A p \in Procs :
           Returned(p) =>
               LET r == locals[p].response
               IN  IF Resolved(p)
                   THEN r.Message = MessageFor(r.Properties)
                   ELSE r.Properties = <<>> /\ r.Message = "Location not recognized"
    /\ \A k \in DOMAIN searchCache :
           LET r == searchCache[k]
           IN  IF k \in Cities
               THEN r.Message = MessageFor(r.Properties)
               ELSE r.Properties = <<>> /\ r.Message = "Location not recognized"

\* The cache holds one entry of each kind, and a request was answered with
\* three properties.
C8_Witness ==
    /\ \E k \in DOMAIN searchCache :
           searchCache[k].Message = "Location not recognized"
    /\ \E k \in DOMAIN searchCache :
           searchCache[k].Message = "No properties found within 50km"
    /\ \E p \in Procs :
           /\ Returned(p)
           /\ Len(locals[p].response.Properties) = 3
           /\ locals[p].response.Message = "Found 3 properties within 50km"

\* C9: the response to a misspelling that fuzzy-matches a reference key k is
\* the cache entry under k, no entry is made under the misspelling, and two
\* misspellings matched to the same k get the same response.
C9_SharedEntry ==
    /\ \A p \in Procs :
           (Returned(p) /\ trace[p].fuzzy /\ locals[p].bestMatch # <<>>) =>
               /\ locals[p].bestMatch \in DOMAIN searchCache
               /\ searchCache[locals[p].bestMatch] = locals[p].response
               /\ Normalized(locals[p].q) \notin DOMAIN searchCache
    /\ \A p1, p2 \in Procs :
           (/\ Returned(p1) /\ trace[p1].fuzzy
            /\ Returned(p2) /\ trace[p2].fuzzy
            /\ locals[p1].bestMatch # <<>>
            /\ locals[p1].bestMatch = locals[p2].bestMatch)
               => locals[p1].response = locals[p2].response

\* Two different misspellings were both matched to the same key and answered.
C9_Witness ==
    \E p1, p2 \in Procs :
        /\ Returned(p1) /\ trace[p1].fuzzy
        /\ Returned(p2) /\ trace[p2].fuzzy
        /\ locals[p1].q # locals[p2].q
        /\ locals[p1].bestMatch \in Cities
        /\ locals[p1].bestMatch = locals[p2].bestMatch
        /\ Len(locals[p1].response.Properties) > 0

\* C10: a call that starts after a call for the same normalized query has
\* completed unresolved is a cache hit that returns "Location not
\* recognized" and never invokes the fuzzy matcher.
C10_NegativeCaching ==
    \A p \in Procs :
        trace[p].late =>
            /\ pc[p] \in {"rlock", "probe", "done"}
            /\ ~trace[p].fuzzy
            /\ pc[p] = "done" =>
                   /\ trace[p].hit
                   /\ status[p] = StatusOK
                   /\ locals[p].response = NotRecognized

\* Such a later call has been answered from the cache.
C10_Witness ==
    \E p \in Procs :
        /\ trace[p].late /\ Returned(p) /\ trace[p].hit
        /\ Normalized(locals[p].q) # locals[p].q

\* The query resolves, and only through the fuzzy matcher.
FuzzyOnly(q) ==
    /\ q \in Queries
    /\ Normalized(q) \notin Cities
    /\ NearKeys[Normalized(q)] # {}

\* C11: the cache is probed with the normalized raw query before resolution:
\* a hit is for a query equal to a stored key, and a query that resolves only
\* through fuzzy matching never hits, however often it was asked before; each
\* such call runs the fuzzy matcher and the search again.
C11_ProbeByRawQuery ==
    \A p \in Procs :
        /\ trace[p].hit => Normalized(locals[p].q) \in DOMAIN searchCache
        /\ FuzzyOnly(locals[p].q) =>
               /\ ~trace[p].hit
               /\ Normalized(locals[p].q) \notin DOMAIN searchCache
               /\ Returned(p) =>
                      /\ trace[p].fuzzy
                      /\ locals[p].found
                      /\ locals[p].response.Message # "Location not recognized"

\* A misspelling already answered through the fuzzy matcher was asked again
\* and went through the fuzzy matcher again, its key being in the cache.
C11_Witness ==
    \E p \in Procs :
        /\ trace[p].again /\ Returned(p) /\ ~trace[p].hit /\ trace[p].fuzzy
        /\ locals[p].bestMatch \in DOMAIN searchCache

\* The request p reads searchCache (line 104, under the read lock).
Reading(p) == pc[p] = "probe"

\* The request p writes searchCache (lines 133 and 169, under the write lock).
Writing(p) == pc[p] = "store"

\* C12: a cache write excludes every other cache write and every cache
\* read: while a request writes searchCache no other request reads or
\* writes it.
C12_MutualExclusion ==
    /\ \A p1, p2 \in Procs :
           (p1 # p2 /\ Writing(p1)) => (~Writing(p2) /\ ~Reading(p2))
    /\ writer = {p \in Procs : Writing(p)}
    /\ readers = {p \in Procs : Reading(p)}
    /\ writer # {} => readers = {}

\* One request writes while the other is held at the read lock; the cache
\* already has an entry to read.
C12_Witness ==
    \E p1, p2 \in Procs :
        /\ Writing(p1)
        /\ pc[p2] = "rlock"
        /\ DOMAIN searchCache # {}

\* The request p is inside searchProperties.
InCall(p) == pc[p] \notin {"idle", "done"}

\* C13: no call blocks forever: under fair scheduling every call inside
\* searchProperties returns a response, on whichever path, holding no lock
\* and waiting for none; so no state is reachable where a call is stuck.
C13_NoBlocking ==
    \A p \in Procs :
        InCall(p) ~> (/\ pc[p] = "done"
                      /\ status[p] = StatusOK
                      /\ p \notin (readers \cup writer \cup pending))

\* All the requests were sent and answered, one by a cache hit, one as
\* unresolved and one after a search, and the lock is free.
C13_Witness ==
    /\ calls = MaxCalls
    /\ readers = {} /\ writer = {} /\ pending = {}
    /\ \E p1, p2 \in Procs :
           /\ Returned(p1) /\ trace[p1].hit
           /\ Returned(p2) /\ ~trace[p2].hit
    /\ \E k \in DOMAIN searchCache : searchCache[k] = NotRecognized
    /\ \E k \in DOMAIN searchCache : searchCache[k] # NotRecognized

\* C14: a request with a missing or empty q is answered 400 at once:
\* searchProperties is not entered (no lock, no resolution, no response
\* body) and the step leaves the cache as it was.
C14_BadRequestLeavesCache ==
    [][\A p \in Procs :
          (calls' = calls + 1 /\ status'[p] = StatusBadRequest) =>
              /\ searchCache' = searchCache
              /\ pc'[p] = "done"
              /\ locals'[p] = NoLocals
              /\ ~trace'[p].hit /\ ~trace'[p].fuzzy
              /\ p \notin (readers' \cup writer' \cup pending')]_vars

\* A request without q was answered 400 while the cache held an entry, and
\* the cache has no entry under the empty key.
C14_Witness ==
    \E p \in Procs :
        /\ pc[p] = "done" /\ status[p] = StatusBadRequest
        /\ DOMAIN searchCache # {}
        /\ <<>> \notin DOMAIN searchCache

\* C15: each cache key is populated once: no call writes an entry under a
\* key that is already in the cache.
C15_PopulatedOnce ==
    \A p \in Procs : Writing(p) => locals[p].cacheKey \notin DOMAIN searchCache

\* C15, as the code has it: a call may write under a key that is already in
\* the cache (a repeat of a fuzzy-resolved misspelling, or a call that
\* missed the probe before another call stored the key), and it then writes
\* a response equal to the entry that is there.
C15_RewriteIsEqual ==
    \A p \in Procs :
        (Writing(p) /\ locals[p].cacheKey \in DOMAIN searchCache) =>
            searchCache[locals[p].cacheKey] = locals[p].response

\* A call for an exact key that missed the probe is about to write under
\* that key, now present, after a misspelling matched to the same key was
\* answered twice in a row.
C15_Witness ==
    \E p1, p2 \in Procs :
        /\ Writing(p1) /\ ~trace[p1].fuzzy
        /\ locals[p1].cacheKey \in DOMAIN searchCache
        /\ Len(searchCache[locals[p1].cacheKey].Properties) > 0
        /\ Returned(p2) /\ trace[p2].again /\ ~trace[p2].hit
        /\ locals[p2].cacheKey = locals[p1].cacheKey

\* C16: the cache only grows and its entries never change: under every
\* interleaving a key once present stays, with the response first stored.
C16_CacheMonotone ==
    [][\A k \in DOMAIN searchCache :
          /\ k \in DOMAIN searchCache'
          /\ searchCache'[k] = searchCache[k]]_vars

\* Two calls have each written under the same key, and the cache holds
\* another entry besides.
C16_Witness ==
    \E p1, p2 \in Procs :
        /\ p1 # p2
        /\ Returned(p1) /\ ~trace[p1].hit
        /\ Returned(p2) /\ ~trace[p2].hit
        /\ locals[p1].cacheKey = locals[p2].cacheKey
        /\ locals[p1].q # locals[p2].q
        /\ Cardinality(DOMAIN searchCache) >= 2

\* The responses an evaluation of q against an empty cache can return.
FreshResponses(q) ==
    LET k == Normalized(q)
    IN  IF k \in Cities
        THEN {SearchTarget(cityCenters[k].Lat, cityCenters[k].Lon, sortStable)}
        ELSE IF NearKeys[k] = {} THEN {NotRecognized}
        ELSE {SearchTarget(cityCenters[c].Lat, cityCenters[c].Lon, sortStable) :
                 c \in NearKeys[k]}

\* C17: the cache is transparent: every response, hit or miss, is one the
\* same query can get against an empty cache; the entry under a reference
\* key is the search from that key's own coordinates, and any other entry
\* is the not-recognized response.
C17_CacheTransparent ==
    /\ \A p \in Procs :
           Returned(p) => locals[p].response \in FreshResponses(locals[p].q)
    /\ \A k \in DOMAIN searchCache :
           searchCache[k] =
               IF k \in Cities
               THEN SearchTarget(cityCenters[k].Lat, cityCenters[k].Lon, sortStable)
               ELSE NotRecognized

\* After two calls only, an exact query for a key was served the entry
\* that a fuzzy-resolved misspelling had stored under it.
C17_Witness ==
    \E p1, p2 \in Procs :
        /\ calls = 2
        /\ Returned(p1) /\ trace[p1].fuzzy /\ locals[p1].bestMatch \in Cities
        /\ Returned(p2) /\ trace[p2].hit
        /\ locals[p2].q = locals[p1].bestMatch
        /\ Len(locals[p2].response.Properties) > 0

====
